---- MODULE Spec2Model ----
(***************************************************************************)
(* Model of src/app.py: the adaptive poster rater.  One Streamlit session: *)
(* the script fetches the genre vocabulary and the top-rated movies,       *)
(* initialises the session state, renders the taste view and the grid, and *)
(* on a like/dislike click runs apply_feedback, replace_card_at_position   *)
(* and st.rerun().                                                         *)
(*                                                                         *)
(* Weights are the floats 0.0, +-1.0, +-2.0, ... of the source; they are   *)
(* exact in binary floating point and are modelled as integers.            *)
(* A movie's genre_ids list is modelled as the set of its elements (the    *)
(* source only iterates over it, and TMDb lists each genre once).          *)
(* tmdb_ids are unique within the list the source returns.                 *)
(***************************************************************************)
EXTENDS Integers, Sequences, FiniteSets, TLC

\* ---------------------------------------------------------------- bounds
\* The source sets TARGET_COUNT = 20, GRID_CARDS = 15 and per_page = 20;
\* the model scales the three down, keeping GRID_CARDS < TARGET_COUNT.
TARGET_COUNT == 4
GRID_CARDS == 2
per_page == 3
\* longest list the external source holds
MaxSource == 4
\* genre ids 1..MaxGenre are in the vocabulary, MaxGenre + 1 is not
MaxGenre == 2
\* number of like/dislike clicks explored in one session
MaxEvents == 3

VARIABLES
    source,       \* the external source's top-rated list (TMDb side)
    pc,           \* position of the script
    page,         \* fetch_top_rated_movies: loop variable
    movies,       \* fetch_top_rated_movies: accumulator
    GENRES,       \* key set of the fetched id -> name mapping
    MOVIES,       \* the catalog
    profile,      \* st.session_state.profile
    seen,         \* st.session_state.seen
    display_ids,  \* st.session_state.display_ids
    votes,        \* st.session_state.votes
    ranked,       \* replace_card_at_position: the ranking of the last call
    scored,       \* recommend_rank: its sorted (score, tmdb_id) pairs, last call
    event,        \* the click handled last: [pos, mid, like]
    nEvents       \* clicks handled so far

vars == <<source, pc, page, movies, GENRES, MOVIES, profile, seen,
          display_ids, votes, ranked, scored, event, nEvents>>

\* ---------------------------------------------------------------- helpers
Range(s) == {s[i] : i \in 1..Len(s)}

Min(a, b) == IF a <= b THEN a ELSE b

\* s[:n]
Take(s, n) == SubSeq(s, 1, Min(n, Len(s)))

\* math.ceil(a / b)
Ceil(a, b) == (a + b - 1) \div b

EmptyDict == [x \in {} |-> 0]

\* d.get(k, 0.0)
Get(d, k) == IF k \in DOMAIN d THEN d[k] ELSE 0

RECURSIVE SumGet(_, _)
SumGet(d, S) ==
    IF S = {} THEN 0
    ELSE LET g == CHOOSE x \in S : TRUE
         IN  Get(d, g) + SumGet(d, S \ {g})

\* ---------------------------------------------------------------- inputs
UnknownGenre == MaxGenre + 1

GenreVocabulary == 1..MaxGenre

GenreLists == {{}, {1}, {1, MaxGenre}, {1, UnknownGenre}}

\* tmdb ids of a source list of n movies: ascending or descending in list order
IdLayouts(n) == {[i \in 1..n |-> i], [i \in 1..n |-> n + 1 - i]}

Sources ==
    UNION {
        {[i \in 1..n |-> [tmdb_id |-> ids[i], genre_ids |-> gl[i]]] :
            ids \in IdLayouts(n), gl \in [1..n -> GenreLists]}
        : n \in 0..MaxSource}

\* source lists that go on past the TARGET_COUNT movies the fetch keeps
FetchSources ==
    UNION {
        {[i \in 1..n |-> [tmdb_id |-> ids[i], genre_ids |-> gl[i]]] :
            ids \in IdLayouts(n), gl \in [1..n -> GenreLists]}
        : n \in 0..(TARGET_COUNT + 2)}

\* data.get("results", []) of the given page
PageResults(p) ==
    SubSeq(source, (p - 1) * per_page + 1, Min(p * per_page, Len(source)))

\* ---------------------------------------------------------------- lookup
CatalogIds == {MOVIES[i].tmdb_id : i \in 1..Len(MOVIES)}

\* ID2MOVIE = {m["tmdb_id"]: m for m in MOVIES}: the last entry wins
ID2MOVIE(mid) ==
    LET idx == {i \in 1..Len(MOVIES) : MOVIES[i].tmdb_id = mid}
    IN  MOVIES[CHOOSE i \in idx : \A j \in idx : j <= i]

\* ---------------------------------------------------------------- ranking
\* variant: a genre missing from the profile counts 1.0
Score_default_one(prof, m) ==
    SumGet(prof, m.genre_ids)
    + Cardinality({g \in m.genre_ids : g \notin DOMAIN prof})

\* score of one movie: sum of prof.get(gid, 0.0) over its genre_ids
Score(prof, m) == SumGet(prof, m.genre_ids)

\* variant: the loop skips the seen movies only
Candidates_seen_only(prof, seenSet, display) ==
    LET keep == SelectSeq(MOVIES, LAMBDA m : ~(m.tmdb_id \in seenSet))
    IN  [i \in 1..Len(keep) |-> <<Score(prof, keep[i]), keep[i].tmdb_id>>]

\* variant: the loop skips the displayed movies only
Candidates_displayed_only(prof, seenSet, display) ==
    LET keep == SelectSeq(MOVIES, LAMBDA m : ~(m.tmdb_id \in Range(display)))
    IN  [i \in 1..Len(keep) |-> <<Score(prof, keep[i]), keep[i].tmdb_id>>]

\* variant: the loop keeps the movies of positive score only
Candidates_positive_only(prof, seenSet, display) ==
    LET keep == SelectSeq(MOVIES, LAMBDA m :
                    /\ ~(m.tmdb_id \in seenSet \/ m.tmdb_id \in Range(display))
                    /\ Score(prof, m) > 0)
    IN  [i \in 1..Len(keep) |-> <<Score(prof, keep[i]), keep[i].tmdb_id>>]

\* the (score, tmdb_id) pairs appended by the loop of recommend_rank
Candidates(prof, seenSet, display) ==
    LET keep == SelectSeq(MOVIES, LAMBDA m :
                    ~(m.tmdb_id \in seenSet \/ m.tmdb_id \in Range(display)))
    IN  [i \in 1..Len(keep) |-> <<Score(prof, keep[i]), keep[i].tmdb_id>>]

\* variant: an ascending stable sort read backwards, equal scores swap
InsertSorted_ties_reversed(s, x) ==
    LET k == Cardinality({j \in 1..Len(s) : s[j][1] > x[1]})
    IN  SubSeq(s, 1, k) \o <<x>> \o SubSeq(s, k + 1, Len(s))

\* one step of the stable descending sort: x goes after every pair whose
\* score is at least its own
InsertSorted(s, x) ==
    LET k == Cardinality({j \in 1..Len(s) : s[j][1] >= x[1]})
    IN  SubSeq(s, 1, k) \o <<x>> \o SubSeq(s, k + 1, Len(s))

\* ranked.sort(reverse=True, key=lambda x: x[0])
RECURSIVE SortByScoreDesc(_)
SortByScoreDesc(s) ==
    IF s = <<>> THEN <<>>
    ELSE InsertSorted(SortByScoreDesc(SubSeq(s, 1, Len(s) - 1)), s[Len(s)])

\* the list ranked of recommend_rank after the sort
RankedPairs(prof, seenSet, display) ==
    SortByScoreDesc(Candidates(prof, seenSet, display))

recommend_rank(prof, seenSet, display) ==
    LET pairs == RankedPairs(prof, seenSet, display)
    IN  [i \in 1..Len(pairs) |-> pairs[i][2]]

\* ---------------------------------------------------------------- feedback
Delta(like) == IF like THEN 1 ELSE -1

\* variant: the weights are clamped to [-1, 1]
FeedbackProfile_clamped(prof, m, like) ==
    [g \in DOMAIN prof \cup m.genre_ids |->
        IF g \in m.genre_ids
        THEN LET w == Get(prof, g) + Delta(like)
             IN  IF w > 1 THEN 1 ELSE IF w < -1 THEN -1 ELSE w
        ELSE prof[g]]

\* the profile after the loop of apply_feedback
FeedbackProfile(prof, m, like) ==
    [g \in DOMAIN prof \cup m.genre_ids |->
        IF g \in m.genre_ids THEN Get(prof, g) + Delta(like) ELSE prof[g]]

\* variant: the rated movie is not added to seen
FeedbackSeen_not_added(seenSet, mid) == seenSet

\* variant: seen is assigned, not added to
FeedbackSeen_assigned(seenSet, mid) == {mid}

\* st.session_state.seen.add(tmdb_id)
FeedbackSeen(seenSet, mid) == seenSet \cup {mid}

\* variant: votes.setdefault(tmdb_id, ...), the first vote stays
FeedbackVotes_first_kept(v, mid, like) ==
    [i \in DOMAIN v \cup {mid} |-> IF i \in DOMAIN v THEN v[i] ELSE Delta(like)]

\* st.session_state.votes[tmdb_id] = 1 if like else -1
FeedbackVotes(v, mid, like) ==
    [i \in DOMAIN v \cup {mid} |-> IF i = mid THEN Delta(like) ELSE v[i]]

\* the session state apply_feedback(tmdb_id, like) leaves
apply_feedback(prof, seenSet, v, mid, like) ==
    [profile |-> FeedbackProfile(prof, ID2MOVIE(mid), like),
     seen    |-> FeedbackSeen(seenSet, mid),
     votes   |-> FeedbackVotes(v, mid, like)]

\* the else branch: the unseen, undisplayed ids in catalog order
Remaining(seenSet, display) ==
    LET keep == SelectSeq(MOVIES, LAMBDA m :
                    m.tmdb_id \notin seenSet /\ m.tmdb_id \notin Range(display))
    IN  [i \in 1..Len(keep) |-> keep[i].tmdb_id]

\* variant: with nothing ranked, the first unseen movie is taken, displayed or not
replace_card_at_position_any_unseen(rk, seenSet, display, pos) ==
    IF rk # <<>>
    THEN [display EXCEPT ![pos] = rk[1]]
    ELSE LET remaining == Remaining(seenSet, <<>>)
         IN  IF remaining # <<>>
             THEN [display EXCEPT ![pos] = remaining[1]]
             ELSE display

\* variant: the replacement is appended, the slot is not overwritten
replace_card_at_position_appended(rk, seenSet, display, pos) ==
    IF rk # <<>>
    THEN Append(display, rk[1])
    ELSE LET remaining == Remaining(seenSet, display)
         IN  IF remaining # <<>>
             THEN Append(display, remaining[1])
             ELSE display

\* variant: the replacement is written into the first slot, whatever pos is
replace_card_at_position_first_slot(rk, seenSet, display, pos) ==
    IF rk # <<>>
    THEN [display EXCEPT ![1] = rk[1]]
    ELSE LET remaining == Remaining(seenSet, display)
         IN  IF remaining # <<>>
             THEN [display EXCEPT ![1] = remaining[1]]
             ELSE display

\* display_ids after replace_card_at_position(pos), given its ranking
replace_card_at_position(rk, seenSet, display, pos) ==
    IF rk # <<>>
    THEN [display EXCEPT ![pos] = rk[1]]
    ELSE LET remaining == Remaining(seenSet, display)
         IN  IF remaining # <<>>
             THEN [display EXCEPT ![pos] = remaining[1]]
             ELSE display

\* ---------------------------------------------------------------- actions
Init ==
    /\ source \in Sources
    /\ pc = "fetch_genres"
    /\ page = 1
    /\ movies = <<>>
    /\ GENRES = {}
    /\ MOVIES = <<>>
    /\ profile = EmptyDict
    /\ seen = {}
    /\ display_ids = <<>>
    /\ votes = EmptyDict
    /\ ranked = <<>>
    /\ scored = <<>>
    /\ event = [pos |-> 0, mid |-> 0, like |-> FALSE]
    /\ nEvents = 0

FetchGenresOk ==
    /\ pc = "fetch_genres"
    /\ GENRES' = GenreVocabulary
    /\ pc' = "fetch_movies"
    /\ UNCHANGED <<source, page, movies, MOVIES, profile, seen, display_ids,
                   votes, ranked, scored, event, nEvents>>

\* r.raise_for_status() raises: the script run ends
FetchGenresFail ==
    /\ pc = "fetch_genres"
    /\ pc' = "failed"
    /\ UNCHANGED <<source, page, movies, GENRES, MOVIES, profile, seen,
                   display_ids, votes, ranked, scored, event, nEvents>>

\* one iteration of the page loop, and the return when it is the last
FetchPageOk ==
    /\ pc = "fetch_movies"
    /\ page <= Ceil(TARGET_COUNT, per_page)
    /\ LET got == movies \o PageResults(page)
       IN  /\ movies' = got
           /\ IF Len(got) >= TARGET_COUNT \/ page = Ceil(TARGET_COUNT, per_page)
              THEN /\ MOVIES' = Take(got, TARGET_COUNT)
                   /\ pc' = "init_state"
                   /\ page' = page
              ELSE /\ page' = page + 1
                   /\ UNCHANGED <<MOVIES, pc>>
    /\ UNCHANGED <<source, GENRES, profile, seen, display_ids, votes, ranked, scored,
                   event, nEvents>>

\* variant: a failed page request ends the loop and the pages fetched so far
\* are returned
FetchPageFail_partial ==
    /\ pc = "fetch_movies"
    /\ page <= Ceil(TARGET_COUNT, per_page)
    /\ MOVIES' = Take(movies, TARGET_COUNT)
    /\ pc' = "init_state"
    /\ UNCHANGED <<source, page, movies, GENRES, profile, seen,
                   display_ids, votes, ranked, scored, event, nEvents>>

\* r.raise_for_status() raises inside the page loop: the script run ends
FetchPageFail ==
    /\ pc = "fetch_movies"
    /\ page <= Ceil(TARGET_COUNT, per_page)
    /\ pc' = "failed"
    /\ UNCHANGED <<source, page, movies, GENRES, MOVIES, profile, seen,
                   display_ids, votes, ranked, scored, event, nEvents>>

InitState ==
    /\ pc = "init_state"
    /\ profile' = [gid \in GENRES |-> 0]
    /\ seen' = {}
    /\ display_ids' = [i \in 1..Min(GRID_CARDS, Len(MOVIES)) |-> MOVIES[i].tmdb_id]
    /\ votes' = EmptyDict
    /\ pc' = "view"
    /\ UNCHANGED <<source, page, movies, GENRES, MOVIES, ranked, scored, event, nEvents>>

\* the genres the taste view looks up in GENRES
ViewKeys == {g \in DOMAIN profile : profile[g] # 0}

\* the expander: GENRES[g] raises KeyError on a key outside the vocabulary
TasteView ==
    /\ pc = "view"
    /\ pc' = IF ViewKeys \subseteq GENRES THEN "grid" ELSE "crashed"
    /\ UNCHANGED <<source, page, movies, GENRES, MOVIES, profile, seen,
                   display_ids, votes, ranked, scored, event, nEvents>>

\* variant: the handler replaces the card before it applies the feedback
Feedback_replace_first(pos, like) ==
    /\ pc = "grid"
    /\ nEvents < MaxEvents
    /\ pos \in 1..Len(display_ids)
    /\ LET mid == display_ids[pos]
           rk == recommend_rank(profile, seen, display_ids)
           fb == apply_feedback(profile, seen, votes, mid, like)
       IN  /\ ranked' = rk
           /\ scored' = RankedPairs(profile, seen, display_ids)
           /\ display_ids' = replace_card_at_position(rk, seen, display_ids, pos)
           /\ profile' = fb.profile
           /\ seen' = fb.seen
           /\ votes' = fb.votes
           /\ event' = [pos |-> pos, mid |-> mid, like |-> like]
    /\ nEvents' = nEvents + 1
    /\ pc' = "view"
    /\ UNCHANGED <<source, page, movies, GENRES, MOVIES>>

\* a click on the button of slot pos: apply_feedback(mid, like),
\* replace_card_at_position(pos), st.rerun()
Feedback(pos, like) ==
    /\ pc = "grid"
    /\ nEvents < MaxEvents
    /\ pos \in 1..Len(display_ids)
    /\ LET mid == display_ids[pos]
           fb == apply_feedback(profile, seen, votes, mid, like)
           rk == recommend_rank(fb.profile, fb.seen, display_ids)
       IN  /\ profile' = fb.profile
           /\ seen' = fb.seen
           /\ votes' = fb.votes
           /\ ranked' = rk
           /\ scored' = RankedPairs(fb.profile, fb.seen, display_ids)
           /\ display_ids' = replace_card_at_position(rk, fb.seen, display_ids, pos)
           /\ event' = [pos |-> pos, mid |-> mid, like |-> like]
    /\ nEvents' = nEvents + 1
    /\ pc' = "view"
    /\ UNCHANGED <<source, page, movies, GENRES, MOVIES>>

Like == \E pos \in 1..GRID_CARDS : Feedback(pos, TRUE)

Dislike == \E pos \in 1..GRID_CARDS : Feedback(pos, FALSE)

Next ==
    \/ FetchGenresOk
    \/ FetchGenresFail
    \/ FetchPageOk
    \/ FetchPageFail
    \/ InitState
    \/ TasteView
    \/ Like
    \/ Dislike

Spec == Init /\ [][Next]_vars

\* the fetch and the session start alone, over the longer source lists
InitFetch ==
    /\ source \in FetchSources
    /\ pc = "fetch_genres"
    /\ page = 1
    /\ movies = <<>>
    /\ GENRES = {}
    /\ MOVIES = <<>>
    /\ profile = EmptyDict
    /\ seen = {}
    /\ display_ids = <<>>
    /\ votes = EmptyDict
    /\ ranked = <<>>
    /\ scored = <<>>
    /\ event = [pos |-> 0, mid |-> 0, like |-> FALSE]
    /\ nEvents = 0

NextFetch ==
    \/ FetchGenresOk
    \/ FetchGenresFail
    \/ FetchPageOk
    \/ FetchPageFail
    \/ InitState

SpecFetch == InitFetch /\ [][NextFetch]_vars

\* ---------------------------------------------------------------- properties
\* the session state exists: the state initialisation has run
InSession == pc \in {"view", "grid", "crashed"}

\* this step is a like/dislike handler
FeedbackStep == pc = "grid" /\ pc' = "view"

\* catalog positions of the items neither seen nor displayed
Pool(seenSet, display) ==
    {i \in 1..Len(MOVIES) :
        MOVIES[i].tmdb_id \notin seenSet /\ MOVIES[i].tmdb_id \notin Range(display)}

PoolIds(seenSet, display) == {MOVIES[i].tmdb_id : i \in Pool(seenSet, display)}

\* catalog position of an identifier
CatalogIndex(mid) == CHOOSE i \in 1..Len(MOVIES) : MOVIES[i].tmdb_id = mid

Distinct(s) == \A i, j \in 1..Len(s) : i # j => s[i] # s[j]

\* C1: in every session state each displayed identifier is a Catalog
\* identifier and no identifier occupies two slots.
C1_DisplayFromCatalogDistinct ==
    InSession => Range(display_ids) \subseteq CatalogIds /\ Distinct(display_ids)

C1_Witness ==
    /\ InSession
    /\ nEvents >= 2
    /\ Len(display_ids) = GRID_CARDS
    /\ display_ids[event.pos] # event.mid

\* C2: a feedback step writes into a slot only an identifier that is not in
\* seen (the rated item included) and was not displayed, and an identifier that
\* is in seen and off the display stays off the display.
C2_SeenNeverRedisplayed ==
    [][FeedbackStep =>
        /\ \A p \in 1..Len(display_ids) :
              display_ids'[p] # display_ids[p] =>
                  /\ display_ids'[p] \notin seen'
                  /\ display_ids'[p] \notin Range(display_ids)
        /\ \A i \in seen \ Range(display_ids) : i \notin Range(display_ids')
      ]_vars

C2_Witness ==
    /\ InSession
    /\ nEvents >= 2
    /\ display_ids[event.pos] # event.mid
    /\ \E i \in seen \ {event.mid} : i \notin Range(display_ids)

\* the pool position of maximal score under prof, the earliest among equals
BestOfPool(prof, seenSet, display) ==
    CHOOSE i \in Pool(seenSet, display) :
        \A j \in Pool(seenSet, display) :
            \/ Score(prof, MOVIES[i]) > Score(prof, MOVIES[j])
            \/ Score(prof, MOVIES[i]) = Score(prof, MOVIES[j]) /\ i <= j

\* C3: a feedback step on slot pos with a non-empty pool binds pos to the pool
\* item of maximal score under the updated profile, the earliest in Catalog
\* order among equals, and changes no other slot.
C3_ReplacementIsBestPostUpdate ==
    [][FeedbackStep /\ Pool(seen, display_ids) # {} =>
        /\ event'.mid = display_ids[event'.pos]
        /\ display_ids' =
              [display_ids EXCEPT ![event'.pos] =
                  MOVIES[BestOfPool(profile', seen, display_ids)].tmdb_id]
      ]_vars

\* a replacement chosen among two candidates whose scores the event changed
C3_Witness ==
    /\ InSession
    /\ nEvents = 1
    /\ display_ids[event.pos] # event.mid
    /\ Pool(seen, display_ids) # {}
    /\ \E i \in Pool(seen, display_ids) :
          Score(profile, MOVIES[i]) # Score(profile, ID2MOVIE(display_ids[event.pos]))

\* C4: the key set of the profile is the category vocabulary in every session
\* state.
C4_ProfileKeysAreVocabulary == InSession => DOMAIN profile = GENRES

\* C5: a feedback event on an item already in seen, or not in the slot it
\* names, changes nothing.
C5_StaleFeedbackIsNoOp ==
    [][FeedbackStep /\ (event'.mid \in seen \/ display_ids[event'.pos] # event'.mid)
          => UNCHANGED <<profile, seen, votes, display_ids>>]_vars

\* C6: with an empty pool, a feedback step on an unrated displayed item adds
\* +-1 to each of its genres, records the vote and marks it seen, and leaves
\* the display as it is.
C6_ExhaustedKeepsDisplay ==
    [][FeedbackStep /\ Pool(seen, display_ids) = {} /\ event'.mid \notin seen =>
        /\ display_ids' = display_ids
        /\ event'.mid = display_ids[event'.pos]
        /\ \A g \in ID2MOVIE(event'.mid).genre_ids :
              Get(profile', g) = Get(profile, g) + Delta(event'.like)
        /\ event'.mid \in DOMAIN votes' /\ votes'[event'.mid] = Delta(event'.like)
        /\ event'.mid \in seen'
      ]_vars

\* two unrated items rated in two slots of an exhausted session
C6_Witness ==
    /\ InSession
    /\ nEvents = 2
    /\ Cardinality(seen) = 2
    /\ seen \subseteq Range(display_ids)
    /\ Len(MOVIES) = Len(display_ids)

\* C7: the ranking a feedback step computes holds exactly the pool's
\* identifiers, each once, by non-increasing score under the profile of the
\* call, equal scores in Catalog order; it is empty when the pool is.
C7_RankIsStableDescendingPool ==
    [][FeedbackStep =>
        /\ Range(ranked') = PoolIds(seen', display_ids)
        /\ Len(ranked') = Cardinality(PoolIds(seen', display_ids))
        /\ \A i, j \in 1..Len(ranked') :
              i < j =>
                 LET si == Score(profile', ID2MOVIE(ranked'[i]))
                     sj == Score(profile', ID2MOVIE(ranked'[j]))
                 IN  /\ si >= sj
                     /\ si = sj => CatalogIndex(ranked'[i]) < CatalogIndex(ranked'[j])
        /\ PoolIds(seen', display_ids) = {} => ranked' = <<>>
      ]_vars

\* a ranking of two candidates with a non-zero profile
C7_Witness ==
    /\ InSession
    /\ nEvents >= 1
    /\ Len(ranked) >= 2
    /\ \E g \in DOMAIN profile : profile[g] # 0

\* C8 as stated: the display has exactly GRID_CARDS slots in every session
\* state.
C8_DisplayHasGridCardsSlots == InSession => Len(display_ids) = GRID_CARDS

\* C8 amended: the display has min(GRID_CARDS, |Catalog|) slots in every
\* session state, it starts as the first that many Catalog items in fetch
\* order, and a feedback step changes no slot but the one of its event.
C8_DisplayLengthFixed ==
    /\ [](InSession => Len(display_ids) = Min(GRID_CARDS, Len(MOVIES)))
    /\ [][pc = "init_state" =>
            display_ids' = [i \in 1..Min(GRID_CARDS, Len(MOVIES)) |-> MOVIES[i].tmdb_id]
         ]_vars
    /\ [][FeedbackStep =>
            /\ Len(display_ids') = Len(display_ids)
            /\ \A p \in 1..Len(display_ids) :
                  p # event'.pos => display_ids'[p] = display_ids[p]
         ]_vars

\* a session over a catalog shorter than the grid, after an event
C8_Witness ==
    /\ InSession
    /\ nEvents >= 1
    /\ Len(MOVIES) >= 1
    /\ Len(MOVIES) < GRID_CARDS
    /\ Len(display_ids) = Len(MOVIES)

\* C9: no step removes an identifier from seen, and a feedback step on an item
\* not in seen adds exactly that item, so |seen| grows by exactly 1.
C9_SeenAppendOnly ==
    [][/\ seen \subseteq seen'
       /\ FeedbackStep /\ event'.mid \notin seen =>
             /\ event'.mid = display_ids[event'.pos]
             /\ seen' = seen \cup {event'.mid}
             /\ Cardinality(seen') = Cardinality(seen) + 1
      ]_vars

C9_Witness ==
    /\ InSession
    /\ nEvents >= 2
    /\ Cardinality(seen) = nEvents

\* every genre id an item may carry
AllGenreIds == 1..UnknownGenre

\* C10: a feedback step changes the weight of each genre of the rated item by
\* +1 on like and -1 on dislike (a missing key counting as 0) and of no other
\* genre, without clamping.
C10_FeedbackAddsUnitPerGenre ==
    [][FeedbackStep =>
        \A g \in AllGenreIds \cup DOMAIN profile \cup DOMAIN profile' :
            Get(profile', g) =
                Get(profile, g)
                + (IF g \in ID2MOVIE(event'.mid).genre_ids
                   THEN Delta(event'.like) ELSE 0)
      ]_vars

\* a weight accumulated beyond one unit, next to an untouched one
C10_Witness ==
    /\ InSession
    /\ \E g, h \in DOMAIN profile :
          /\ (profile[g] >= 2 \/ profile[g] <= -2)
          /\ profile[h] = 0

\* the sum of prof[c] over the genres c in 1..n that are keys of prof
RECURSIVE WeightSum(_, _, _)
WeightSum(prof, genres, n) ==
    IF n = 0 THEN 0
    ELSE (IF n \in genres /\ n \in DOMAIN prof THEN prof[n] ELSE 0)
         + WeightSum(prof, genres, n - 1)

\* C11: the score each ranking attaches to a candidate is the sum of the
\* profile's weights over the candidate's genres, a genre that is no key of
\* the profile adding 0 and an item without genres scoring 0.
C11_ScoreIsSumOfWeights ==
    [][FeedbackStep =>
        /\ Len(scored') = Len(ranked')
        /\ \A k \in 1..Len(scored') :
              /\ scored'[k][2] = ranked'[k]
              /\ scored'[k][1] =
                    WeightSum(profile', ID2MOVIE(scored'[k][2]).genre_ids, UnknownGenre)
      ]_vars

\* a ranking that scores an item without genres next to an item with a genre
\* outside the profile's keys, under a non-zero weight
C11_Witness ==
    /\ InSession
    /\ UnknownGenre \notin DOMAIN profile
    /\ \E j, k \in 1..Len(scored) :
          /\ ID2MOVIE(scored[j][2]).genre_ids = {}
          /\ scored[j][1] = 0
          /\ UnknownGenre \in ID2MOVIE(scored[k][2]).genre_ids
          /\ scored[k][1] # 0

\* C12: no script run of the session ends in a missing-key error: after a
\* like/dislike of an item carrying a genre id outside the vocabulary, the
\* feedback update, the ranking and the following taste view all complete.
C12_FeedbackLoopNeverCrashes == pc # "crashed"

\* C13: the keys of votes are exactly the seen identifiers, every vote is +1
\* or -1, and a feedback step sets the rated item's vote to +1 on like and -1
\* on dislike, overwriting an earlier vote and changing no other entry.
C13_VotesOnePerRatedItem ==
    /\ [](DOMAIN votes = seen /\ \A i \in DOMAIN votes : votes[i] \in {1, -1})
    /\ [][FeedbackStep =>
            /\ DOMAIN votes' = DOMAIN votes \cup {event'.mid}
            /\ votes'[event'.mid] = Delta(event'.like)
            /\ \A i \in DOMAIN votes \ {event'.mid} : votes'[i] = votes[i]
         ]_vars

\* an item liked and then disliked (or the reverse): its weights are back to
\* 0 and its single vote is the later one
C13_Witness ==
    /\ InSession
    /\ nEvents = 2
    /\ seen = {event.mid}
    /\ ID2MOVIE(event.mid).genre_ids # {}
    /\ \A g \in DOMAIN profile : profile[g] = 0
    /\ votes[event.mid] = Delta(event.like)

\* C15: the catalog a session starts with has at most TARGET_COUNT items and
\* is the source's list in its order, whole up to TARGET_COUNT; when a page
\* request fails the run ends there for good, with no catalog and no session
\* state set.
C15_FetchAllOrNothing ==
    /\ [](pc \in {"init_state", "view"} =>
             /\ Len(MOVIES) <= TARGET_COUNT
             /\ MOVIES = Take(source, TARGET_COUNT))
    /\ [](pc = "failed" =>
             MOVIES = <<>> /\ display_ids = <<>> /\ profile = EmptyDict)
    /\ [][pc = "failed" => pc' = "failed"]_vars

\* a request that failed after an earlier page had been fetched
C15_Witness ==
    /\ pc = "failed"
    /\ movies # <<>>
    /\ Len(source) > Len(movies)
    /\ MOVIES = <<>>

\* the sum of votes[i] over the rated items i of S that carry genre c
RECURSIVE VoteSum(_, _)
VoteSum(c, S) ==
    IF S = {} THEN 0
    ELSE LET i == CHOOSE x \in S : TRUE
         IN  (IF c \in ID2MOVIE(i).genre_ids THEN votes[i] ELSE 0)
             + VoteSum(c, S \ {i})

\* C16: in every session state the weight of every genre is the sum of the
\* votes of the rated items that carry it.
C16_ProfileIsSumOfVotes ==
    InSession =>
        \A c \in AllGenreIds \cup DOMAIN profile : Get(profile, c) = VoteSum(c, seen)

\* C17: in every session state, if a displayed identifier is in seen then no
\* Catalog item is left that is neither seen nor displayed.
C17_RatedOnDisplayMeansExhausted ==
    InSession /\ Range(display_ids) \cap seen # {} => Pool(seen, display_ids) = {}

\* a rated item kept on display after the pool of a longer catalog ran out
C17_Witness ==
    /\ InSession
    /\ Len(MOVIES) > Len(display_ids)
    /\ seen \ Range(display_ids) # {}
    /\ Range(display_ids) \cap seen # {}

C19_FallbackNeverBinds ==
    [][FeedbackStep =>
        /\ ranked' = <<>> <=> Pool(seen', display_ids) = {}
        /\ ranked' = <<>> =>
              Remaining(seen', display_ids) = <<>> /\ display_ids' = display_ids
        /\ \A p \in 1..Len(display_ids) :
              display_ids'[p] # display_ids[p] =>
                  ranked' # <<>> /\ p = event'.pos /\ display_ids'[p] = ranked'[1]
      ]_vars

\* the else branch taken in a session that had replaced a slot before
C19_Witness ==
    /\ InSession
    /\ nEvents >= 2
    /\ ranked = <<>>
    /\ seen \ Range(display_ids) # {}

====
